---- MODULE Spec2Model ----
(***************************************************************************)
(* A model of src/bot.py: the token feed ranking (get_top_tokens), the     *)
(* rate-limit wait computation, the publishing sequence of main(), and     *)
(* the loop of create_tweets_with_rate_limit().                            *)
(*                                                                         *)
(* Python values are represented as follows.                               *)
(*   dict            a record; d.get(k, dflt) tests k \in DOMAIN d         *)
(*   list            a sequence                                            *)
(*   None / a list   get_top_tokens' result is [isNone |-> TRUE] or        *)
(*                   [isNone |-> FALSE, list |-> <<...>>]                  *)
(*   identifiers     strings; the string "None" stands for None            *)
(*   exit status     an integer; -1 while the process runs                 *)
(*   header strings  sequences of code points (ord of each character)      *)
(*   address strings [chars |-> n], a string of n characters               *)
(*   post bodies     records of their parts and their length in characters *)
(***************************************************************************)
EXTENDS Integers, Sequences, FiniteSets, TLC

VARIABLES
    \* ---- get_top_tokens() on its own
    response,       \* what requests.get(OUTLIGHT_API_URL) produced
    result,         \* [called |-> FALSE], or what get_top_tokens() returned
    \* ---- the rate-limit wait computation on its own
    header,         \* the x-rate-limit-reset header of the 429 response
    now,            \* int(time.time()) when the handler runs
    wait_time,      \* [computed |-> FALSE] or the handler's outcome
    \* ---- main()
    pc,             \* position in main()
    creds,          \* <<api_key, api_secret, access_token, access_token_secret>>
    feed_class,     \* history: what the feed GET delivered, as a class
    top_3,          \* main's local top_3 (forgotten once format_tweet has read it)
    tweet_text,     \* main's local tweet_text
    media_id,       \* main's local media_id
    main_tweet_id,  \* main's local main_tweet_id
    link_tweet_text,\* main's local link_tweet_text
    reply_media_id, \* main's local reply_media_id
    calls,          \* the social-media API calls made so far, in order, each
                    \* with the number of sleeps that ended before it
    sleeps,         \* the time.sleep() durations so far, in order
    log,            \* the log records so far, in order
    raised,         \* the exception that left main(), or "None"
    exit_status,    \* the process's exit status, -1 while it runs
    \* ---- create_tweets_with_rate_limit() on its own
    tweets_to_send, \* the argument tweets_to_send
    tweet_index,    \* the position in tweets_to_send of the loop's tweet
    send_pc,        \* position in create_tweets_with_rate_limit()
    events,         \* its create_tweet calls, sleeps and log records, in order
    send_raised     \* the exception that left the function, or "None"

rankVars == <<response, result>>
waitVars == <<header, now, wait_time>>
mainVars == <<pc, creds, feed_class, top_3, tweet_text, media_id, main_tweet_id,
              link_tweet_text, reply_media_id, calls, sleeps, log, raised,
              exit_status>>
sendVars == <<tweets_to_send, tweet_index, send_pc, events, send_raised>>
vars == <<response, result, header, now, wait_time, pc, creds, feed_class, top_3,
          tweet_text, media_id, main_tweet_id, link_tweet_text,
          reply_media_id, calls, sleeps, log, raised, exit_status,
          tweets_to_send, tweet_index, send_pc, events, send_raised>>

(***************************************************************************)
(* Bounds of the model.                                                    *)
(***************************************************************************)
MaxFeed == 4          \* longest feed
MaxTotalCalls == 4    \* most call records in a feed of mixed call records
MaxScore == 2         \* highest score in a feed whose tokens all qualify
MaxHeaderLen == 3     \* longest reset header, in characters
MaxClock == 60        \* latest current time, in seconds

Max(a, b) == IF a >= b THEN a ELSE b
Min(a, b) == IF a <= b THEN a ELSE b

(***************************************************************************)
(* get_top_tokens                                                          *)
(***************************************************************************)
WinRateThreshold == 30
TopN == 3

\* call.get('win_rate', 0)
WinRateOf(call) == IF "win_rate" \in DOMAIN call THEN call.win_rate ELSE 0

\* token.get('channel_calls', [])
ChannelCallsOf(token) ==
    IF "channel_calls" \in DOMAIN token THEN token.channel_calls ELSE <<>>

QualifiesGE(call) == WinRateOf(call) >= WinRateThreshold

\* the condition of the comprehension: call.get('win_rate', 0) > 30
Qualifies(call) == WinRateOf(call) > WinRateThreshold

\* calls_above_30 = [call for call in channel_calls if ...]
CallsAbove30(channel_calls) == SelectSeq(channel_calls, Qualifies)

\* count_calls = len(calls_above_30)
CountCalls(token) == Len(CallsAbove30(ChannelCallsOf(token)))

\* token_copy = token.copy(); token_copy['filtered_calls'] = count_calls
TokenCopy(token, count_calls) ==
    [k \in DOMAIN token \cup {"filtered_calls"} |->
        IF k = "filtered_calls" THEN count_calls ELSE token[k]]

\* the loop over data: tokens_with_filtered_calls, in feed order
RECURSIVE TokensWithFilteredCalls(_)
TokensWithFilteredCalls(data) ==
    IF data = <<>> THEN <<>>
    ELSE LET token == Head(data)
             count_calls == CountCalls(token)
         IN  IF count_calls > 0
             THEN <<TokenCopy(token, count_calls)>>
                      \o TokensWithFilteredCalls(Tail(data))
             ELSE TokensWithFilteredCalls(Tail(data))

\* key=lambda x: x.get('filtered_calls', 0)
SortKey(x) == IF "filtered_calls" \in DOMAIN x THEN x.filtered_calls ELSE 0

\* x goes behind every element whose key is at least its own
RECURSIVE InsertDesc(_, _)
InsertDesc(x, s) ==
    IF s = <<>> THEN <<x>>
    ELSE IF SortKey(Head(s)) >= SortKey(x)
         THEN <<Head(s)>> \o InsertDesc(x, Tail(s))
         ELSE <<x>> \o s

RECURSIVE SortedInto(_, _)
SortedInto(s, acc) ==
    IF s = <<>> THEN acc
    ELSE SortedInto(Tail(s), InsertDesc(Head(s), acc))

\* the slice taken before the sort: sorted(tokens[:3], ...)
SortedFirstThree(tokens) ==
    SortedInto(SubSeq(tokens, 1, Min(TopN, Len(tokens))), <<>>)

\* sorted(tokens_with_filtered_calls, key=..., reverse=True): stable
SortedTokens(tokens) == SortedInto(tokens, <<>>)

\* sorted_tokens[:3]
Top3(sorted_tokens) == SubSeq(sorted_tokens, 1, Min(TopN, Len(sorted_tokens)))

NoneResult == [isNone |-> TRUE]
ListResult(l) == [isNone |-> FALSE, list |-> l]

\* a dict has .get; a JSON scalar (string, number, null) has not
IsDict(item) == "scalar" \notin DOMAIN item

\* iterating a list gives its elements, a dict its keys, a string its characters
Iterable(body) == body.kind \in {"array", "object", "string"}

\* call.get raises on a call record that is not a dict
CallGetRaises(token) ==
    \E j \in 1..Len(ChannelCallsOf(token)) : ~IsDict(ChannelCallsOf(token)[j])

\* response.raise_for_status() raises HTTPError for a client or server error
RaisesForStatus(status) == status \in 400..599

\* get_top_tokens(), given what the GET produced
GetTopTokens(resp) ==
    IF resp.error # "None" THEN NoneResult                \* requests.get raised
    ELSE IF RaisesForStatus(resp.status) THEN NoneResult  \* raise_for_status
    ELSE IF ~resp.body.json THEN NoneResult               \* response.json() raised
    ELSE IF ~Iterable(resp.body) THEN NoneResult          \* for token in data
    ELSE IF \E i \in 1..Len(resp.body.items) : ~IsDict(resp.body.items[i])
         THEN NoneResult                                  \* token.get raised
    ELSE IF \E i \in 1..Len(resp.body.items) : CallGetRaises(resp.body.items[i])
         THEN NoneResult                                  \* call.get raised
    ELSE ListResult(Top3(SortedTokens(TokensWithFilteredCalls(resp.body.items))))

\* line 51: the error record of the except clause
GetTopTokensLog(resp) ==
    IF GetTopTokens(resp).isNone
    THEN <<[level |-> "error", what |-> "unexpected error in get_top_tokens"]>>
    ELSE <<>>

\* if not top_3: None or an empty list
Falsy(r) == r.isNone \/ r.list = <<>>

(***************************************************************************)
(* The inputs of get_top_tokens: the token at position i of a feed has     *)
(* symbol i, so that tokens are told apart by where they stood.            *)
(***************************************************************************)
CallRecords == {[channel |-> "c"], [channel |-> "c", win_rate |-> 30],
                [channel |-> "c", win_rate |-> 31]}

\* the token at position i: with no call records it may lack the field
TokenAt(i, channel_calls, lacksField) ==
    IF channel_calls = <<>> /\ lacksField
    THEN [symbol |-> i]
    ELSE [symbol |-> i, channel_calls |-> channel_calls]

RECURSIVE SumTo(_, _)
SumTo(k, i) == IF i = 0 THEN 0 ELSE SumTo(k, i - 1) + k[i]

\* the feed of n tokens whose i-th token has the next k[i] records of flat
BuildFeed(n, k, flat, lacking) ==
    [i \in 1..n |->
        TokenAt(i, SubSeq(flat, SumTo(k, i - 1) + 1, SumTo(k, i)), i \in lacking)]

\* the addresses of a feed's tokens: the field is absent, or a long string
NoAddress == [chars |-> 0, absent |-> TRUE]
Addresses == {NoAddress, [chars |-> 300]}

\* the feed whose tokens all carry the address, when there is one
WithAddress(feed, address) ==
    IF address = NoAddress THEN feed
    ELSE [i \in DOMAIN feed |->
            [k \in DOMAIN feed[i] \cup {"address"} |->
                IF k = "address" THEN address ELSE feed[i][k]]]

\* P holds of some feed of at most maxFeed tokens and maxCalls call records
SomeFeedWithin(maxFeed, maxCalls, P(_)) ==
    \E n \in 0..maxFeed :
      \E k \in [1..n -> 0..maxCalls] :
        /\ SumTo(k, n) <= maxCalls
        /\ \E flat \in [1..SumTo(k, n) -> CallRecords] :
             \E lacking \in SUBSET {i \in 1..n : k[i] = 0} :
               \E address \in Addresses :
                 P(WithAddress(BuildFeed(n, k, flat, lacking), address))

\* P holds of some feed of at most MaxFeed tokens and MaxTotalCalls call records
SomeFeed(P(_)) == SomeFeedWithin(MaxFeed, MaxTotalCalls, P)

\* a feed whose tokens all qualify: token i has score[i] records above 30
QualifyingCall == [channel |-> "c", win_rate |-> 31]
ScoredFeed(n, score) ==
    [i \in 1..n |-> TokenAt(i, [j \in 1..score[i] |-> QualifyingCall], FALSE)]

\* P holds of some feed of at most maxFeed tokens with scores up to MaxScore
SomeScoredFeedWithin(maxFeed, P(_)) ==
    \E n \in 0..maxFeed :
      \E score \in [1..n -> 1..MaxScore] : P(ScoredFeed(n, score))

\* the status codes of the answers: success, a redirection that is not
\* followed, client error, server error, and a code above the standard ones
Statuses == {200, 300, 404, 500, 600}

Response(status, body) == [error |-> "None", status |-> status, body |-> body]
OkResponse(body) == Response(200, body)
ArrayBody(items) == [json |-> TRUE, kind |-> "array", items |-> items]
NotJson == [json |-> FALSE]

\* responses get_top_tokens() cannot read
FailedResponses ==
    {[error |-> "ConnectionError"],
     Response(404, NotJson),
     Response(500, NotJson),
     Response(300, NotJson),
     OkResponse(NotJson),
     OkResponse([json |-> TRUE, kind |-> "null"]),
     OkResponse([json |-> TRUE, kind |-> "number"]),
     OkResponse([json |-> TRUE, kind |-> "object", items |-> <<>>]),
     OkResponse([json |-> TRUE, kind |-> "object",
                 items |-> <<[scalar |-> "error"]>>]),
     OkResponse(ArrayBody(<<[scalar |-> 7]>>)),
     OkResponse(ArrayBody(<<[symbol |-> 1,
                             channel_calls |-> <<[win_rate |-> 31]>>],
                            [scalar |-> "x"]>>)),
     OkResponse(ArrayBody(<<[symbol |-> 1, channel_calls |-> <<[scalar |-> 7]>>]>>)),
     OkResponse(ArrayBody(<<[symbol |-> 1,
                             channel_calls |-> <<[win_rate |-> 31],
                                                 [scalar |-> 7]>>]>>))}

\* P holds of some response: one that cannot be read, a feed of mixed call
\* records answered with 200, or a feed of qualifying tokens under any status
SomeResponseWithin(maxFeed, maxCalls, P(_)) ==
    \/ \E r \in FailedResponses : P(r)
    \/ SomeFeedWithin(maxFeed, maxCalls, LAMBDA f : P(OkResponse(ArrayBody(f))))
    \/ SomeScoredFeedWithin(maxFeed, LAMBDA f :
          \E status \in Statuses : P(Response(status, ArrayBody(f))))

SomeResponse(P(_)) == SomeResponseWithin(MaxFeed, MaxTotalCalls, P)

(***************************************************************************)
(* The rate-limit wait:                                                    *)
(*   reset_time = int(e.response.headers.get('x-rate-limit-reset', 0))     *)
(*   current_time = int(time.time())                                       *)
(*   wait_time = max(reset_time - current_time + 10, 60)                   *)
(***************************************************************************)
WaitBuffer == 10
MinWait == 60

NoHeader == [present |-> FALSE]
HeaderOf(chars) == [present |-> TRUE, value |-> chars]

\* the characters int() drops from both ends of a string:
\* \t \n \v \f \r, the blank, U+0085, U+00A0, U+1680, U+2000 to U+200A,
\* U+2028, U+2029, U+202F, U+205F, U+3000
WhiteSpace ==
    {9, 10, 11, 12, 13, 32, 133, 160, 5760} \cup (8192..8202)
        \cup {8232, 8233, 8239, 8287, 12288}

\* the digit zero of every script whose decimal digits int() reads: '0',
\* ARABIC-INDIC DIGIT ZERO, ...; the digits one to nine follow each zero
DecimalZeros ==
    {48, 1632, 1776, 1984, 2406, 2534, 2662, 2790, 2918, 3046, 3174, 3302,
     3430, 3558, 3664, 3792, 3872, 4160, 4240, 6112, 6160, 6470, 6608,
     6784, 6800, 6992, 7088, 7232, 7248, 42528, 43216, 43264, 43472, 43504,
     43600, 44016, 65296, 66720, 68912, 69734, 69872, 69942, 70096, 70384,
     70736, 70864, 71248, 71360, 71472, 71904, 72016, 72784, 73040, 73120,
     92768, 92864, 93008, 120782, 120792, 120802, 120812, 120822, 123200,
     123632, 125264, 130032}

IsDigit(c) == \E z \in DecimalZeros : c \in z..(z + 9)

DigitValue(c) == c - (CHOOSE z \in DecimalZeros : c \in z..(z + 9))

\* the digits from the first one that is not a zero
WithoutLeadingZeros(chars) ==
    LET significant == {i \in 1..Len(chars) : DigitValue(chars[i]) # 0}
    IN  IF significant = {} THEN <<>>
        ELSE SubSeq(chars, CHOOSE i \in significant :
                               \A j \in significant : i <= j, Len(chars))

\* the number a sequence of digits writes in base ten
RECURSIVE PlaceValue(_)
PlaceValue(chars) ==
    IF chars = <<>> THEN 0
    ELSE 10 * PlaceValue(SubSeq(chars, 1, Len(chars) - 1))
             + DigitValue(chars[Len(chars)])

DigitsValue(chars) == PlaceValue(WithoutLeadingZeros(chars))

\* the string without its leading, and without its trailing, white space
RECURSIVE StripLeft(_)
StripLeft(chars) ==
    IF chars # <<>> /\ Head(chars) \in WhiteSpace
    THEN StripLeft(Tail(chars))
    ELSE chars

RECURSIVE StripRight(_)
StripRight(chars) ==
    IF chars # <<>> /\ chars[Len(chars)] \in WhiteSpace
    THEN StripRight(SubSeq(chars, 1, Len(chars) - 1))
    ELSE chars

\* the sign int() reads off the front of the stripped string: '-' or '+'
HasSign(chars) == chars # <<>> /\ Head(chars) \in {45, 43}

\* decimal digits, with single underscores ('_' is 95) between two digits
DigitsWithUnderscores(chars) ==
    /\ chars # <<>>
    /\ \A i \in 1..Len(chars) : IsDigit(chars[i]) \/ chars[i] = 95
    /\ chars[1] # 95
    /\ chars[Len(chars)] # 95
    /\ \A i \in 1..(Len(chars) - 1) : ~(chars[i] = 95 /\ chars[i + 1] = 95)

\* the most digits int() converts (sys.int_max_str_digits, as the
\* interpreter starts); underscores, sign and white space do not count
MaxStrDigits == 4300

\* int(s) for a string s: white space around it is dropped, then an
\* optional sign, then decimal digits with single underscores between
\* them; anything else, and more than MaxStrDigits digits, raises ValueError
ParseInt(chars) ==
    LET stripped == StripRight(StripLeft(chars))
        body == IF HasSign(stripped) THEN Tail(stripped) ELSE stripped
        digits == SelectSeq(body, IsDigit)
        magnitude == DigitsValue(digits)
    IN  IF ~DigitsWithUnderscores(body) THEN [raised |-> "ValueError"]
        ELSE IF Len(digits) > MaxStrDigits THEN [raised |-> "ValueError"]
        ELSE IF HasSign(stripped) /\ Head(stripped) = 45
        THEN [raised |-> "None", value |-> 0 - magnitude]
        ELSE [raised |-> "None", value |-> magnitude]

\* int(e.response.headers.get('x-rate-limit-reset', 0))
ResetTime(hdr) ==
    IF hdr.present THEN ParseInt(hdr.value) ELSE [raised |-> "None", value |-> 0]

\* max(reset_time - current_time + 10, 60)
WaitTime(reset_time, current_time) ==
    Max(reset_time - current_time + WaitBuffer, MinWait)

\* the three lines together: what is raised, or the wait
RateLimitWait(hdr, current_time) ==
    LET r == ResetTime(hdr)
    IN  IF r.raised # "None" THEN [raised |-> r.raised]
        ELSE [raised |-> "None", reset_time |-> r.value,
              wait_time |-> WaitTime(r.value, current_time)]

\* len(str(n)) of a natural number
RECURSIVE DecLen(_)
DecLen(n) == IF n < 10 THEN 1 ELSE 1 + DecLen(n \div 10)

\* str(n), as the f-string of the handler's log record calls it, raises
\* ValueError for a number of more than MaxStrDigits digits
StrRaises(n) == DecLen(n) > MaxStrDigits

\* seconds and nanoseconds together are more than 2^63 - 1 nanoseconds, the
\* largest C _PyTime_t: 9 * 10^9 + 223372036 seconds and 854775807 nanoseconds
ExceedsTimeMax(seconds, nanoseconds) ==
    LET high == seconds \div 1000000000
        low == seconds % 1000000000
    IN  \/ high > 9
        \/ high = 9 /\ low > 223372036
        \/ high = 9 /\ low = 223372036 /\ nanoseconds > 854775807

\* time.sleep(seconds) while the monotonic clock reads monotonic: the
\* seconds become nanoseconds (OverflowError when they do not fit), the
\* clock is added for the deadline of clock_nanosleep, which refuses a
\* deadline that does not fit (OSError); "None" when it sleeps
SleepRaises(seconds, monotonic) ==
    IF ExceedsTimeMax(seconds, 0) THEN "OverflowError"
    ELSE IF ExceedsTimeMax(monotonic.sec + seconds, monotonic.nsec) THEN "OSError"
    ELSE "None"

\* '0' '5' '-' '+' ' ' '\t' '_' 'x' and ARABIC-INDIC DIGIT FIVE
HeaderChars == {48, 53, 45, 43, 32, 9, 95, 120, 1637}
\* a header of one digit more than int() converts, every digit '0'
TooManyDigits == HeaderOf([i \in 1..(MaxStrDigits + 1) |-> 48])

Headers ==
    {NoHeader, TooManyDigits} \cup
    UNION {{HeaderOf(cs) : cs \in [1..n -> HeaderChars]} : n \in 1..MaxHeaderLen}
Times == 0..MaxClock

(***************************************************************************)
(* main(): idle values, used by the specifications of the single functions *)
(***************************************************************************)
\* the feed was not fetched yet
NoFeedClass == [status |-> "None", content |-> "None"]

\* a text local that is not yet bound
NoText == [part |-> "None"]

MainIdle ==
    /\ pc = "idle"
    /\ creds = <<"k", "k", "k", "k">>
    /\ feed_class = NoFeedClass
    /\ top_3 = NoneResult
    /\ tweet_text = NoText
    /\ media_id = "None"
    /\ main_tweet_id = "None"
    /\ link_tweet_text = NoText
    /\ reply_media_id = "None"
    /\ calls = <<>>
    /\ sleeps = <<>>
    /\ log = <<>>
    /\ raised = "None"
    /\ exit_status = -1

RankIdle == response = [error |-> "None", status |-> 200,
                        body |-> [json |-> TRUE, kind |-> "array", items |-> <<>>]]
            /\ result = [called |-> FALSE]
WaitIdle == header = NoHeader /\ now = 0 /\ wait_time = [computed |-> FALSE]

SendIdle ==
    /\ tweets_to_send = <<>>
    /\ tweet_index = 0
    /\ send_pc = "idle"
    /\ events = <<>>
    /\ send_raised = "None"

(***************************************************************************)
(* Specification of get_top_tokens() over every response                   *)
(***************************************************************************)
RankInit ==
    /\ SomeResponse(LAMBDA r : response = r)
    /\ result = [called |-> FALSE]
    /\ WaitIdle
    /\ MainIdle
    /\ SendIdle

CallGetTopTokens ==
    /\ ~result.called
    /\ result' = [called |-> TRUE, value |-> GetTopTokens(response),
                  log |-> GetTopTokensLog(response)]
    /\ UNCHANGED <<response, waitVars, mainVars, sendVars>>

RankNext == CallGetTopTokens
SpecRank == RankInit /\ [][RankNext]_vars

(***************************************************************************)
(* Specification of the wait computation over every header and time        *)
(***************************************************************************)
WaitInit ==
    /\ header \in Headers
    /\ now \in Times
    /\ wait_time = [computed |-> FALSE]
    /\ RankIdle
    /\ MainIdle
    /\ SendIdle

ComputeWait ==
    /\ ~wait_time.computed
    /\ wait_time' = [computed |-> TRUE, outcome |-> RateLimitWait(header, now)]
    /\ UNCHANGED <<header, now, rankVars, mainVars, sendVars>>

WaitNext == ComputeWait
SpecWait == WaitInit /\ [][WaitNext]_vars

(***************************************************************************)
(* main()                                                                  *)
(***************************************************************************)
NumHeaders == 10
NumMessages == 10
CoolDown == 60
MaxHour == 1          \* latest hour of the day read by format_tweet
MaxMinute == 1        \* latest minute of the hour read by format_link_tweet
MainMaxFeed == 2      \* longest feed main() is given
MainMaxTotalCalls == 2 \* most call records in a feed main() is given

CredValues == {"None", "", "k"}
Truthy(v) == v \notin {"None", ""}

\* all([api_key, api_secret, access_token, access_token_secret])
AllCredentials(c) == \A i \in 1..4 : Truthy(c[i])

\* a log record
Log(level, what) == [level |-> level, what |-> what]

\* len() of the ten headers of format_tweet and of the ten messages of
\* format_link_tweet, in list order
HeaderLens == <<32, 23, 26, 27, 29, 28, 32, 34, 22, 23>>
MessageLens == <<32, 24, 41, 28, 24, 41, 28, 46, 41, 36>>

\* len of the rank marker of the token at a position (counted from 1): a
\* medal, one character, for the first three, then f"{i+1}."
MedalLen(position) == IF position <= 3 THEN 1 ELSE DecLen(position) + 1

\* len of one token's block: f"{medal} ${symbol}\n{address}\n📞 {calls}\n\n"
\* has 8 characters besides the medal, the symbol, the address and the
\* count; 'Unknown' has 7 characters and 'No Address Provided' has 19
TokenBlockLen(token, position) ==
    MedalLen(position) + 8
      + (IF "symbol" \in DOMAIN token THEN DecLen(token.symbol) ELSE 7)
      + (IF "address" \in DOMAIN token THEN token.address.chars ELSE 19)
      + DecLen(SortKey(token))

\* len of the blocks of all tokens
BlocksLen(tokens) ==
    LET upTo[n \in 0..Len(tokens)] ==
            IF n = 0 THEN 0 ELSE upTo[n - 1] + TokenBlockLen(tokens[n], n)
    IN  upTo[Len(tokens)]

\* len(tweet): header and "\n\n", the blocks, less the two newlines rstrip
\* takes off, and "\n\n1/2"
TweetLen(top_3_tokens, current_hour) ==
    HeaderLens[(current_hour % NumHeaders) + 1] + 2 + BlocksLen(top_3_tokens)
        - 2 + 5

\* len of the reply: 71 characters around the message
LinkTweetLen(current_minute) == 71 + MessageLens[(current_minute % NumMessages) + 1]

\* logging.info(tweet_text), logging.info(link_tweet_text): the body itself
TextLog(text) == [level |-> "info", what |-> "text", text |-> text]

\* the limit main() compares len(tweet_text) and len(link_tweet_text) with
TweetLimit == 280

\* the length check, had it logged nothing
NoLengthWarning(text, what) == <<>>

\* if len(text) > 280: logging.warning(...)
LengthWarning(text, what) ==
    IF text.len > TweetLimit THEN <<Log("warning", what)>> ELSE <<>>

\* format_tweet(top_3_tokens): the header chosen by the hour, one block a token
FormatTweet(top_3_tokens, current_hour) ==
    [part |-> "1/2",
     len |-> TweetLen(top_3_tokens, current_hour),
     header |-> current_hour % NumHeaders,
     tokens |-> [i \in 1..Len(top_3_tokens) |->
        LET token == top_3_tokens[i]
        IN  [medal |-> i,
             symbol |-> IF "symbol" \in DOMAIN token THEN token.symbol
                        ELSE "Unknown",
             address |-> IF "address" \in DOMAIN token THEN token.address
                         ELSE "No Address Provided",
             calls |-> SortKey(token)]]]

\* format_link_tweet(): the message chosen by the minute
FormatLinkTweet(current_minute) ==
    [part |-> "2/2", len |-> LinkTweetLen(current_minute),
     message |-> current_minute % NumMessages]

\* if not top_3:
SkipsPublishing(r) == Falsy(r)

\* the body is a JSON array of dicts whose call records are dicts
IsTokenArray(body) ==
    /\ body.json
    /\ body.kind = "array"
    /\ \A i \in 1..Len(body.items) :
          LET t == body.items[i]
          IN  /\ "scalar" \notin DOMAIN t
              /\ "channel_calls" \in DOMAIN t
                    => \A j \in 1..Len(t.channel_calls) :
                          "scalar" \notin DOMAIN t.channel_calls[j]

\* some call record of the token has a win_rate above 30
HasCallAbove30(t) ==
    /\ "channel_calls" \in DOMAIN t
    /\ \E j \in 1..Len(t.channel_calls) :
          /\ "win_rate" \in DOMAIN t.channel_calls[j]
          /\ t.channel_calls[j].win_rate > 30

\* what the answer's status line says
StatusClass(resp) ==
    IF resp.error # "None" THEN "no_answer"
    ELSE IF resp.status \in 200..299 THEN "2xx"
    ELSE IF resp.status \in 400..599 THEN "4xx_5xx"
    ELSE "other"

\* what the answer's body holds
ContentClass(resp) ==
    IF resp.error # "None" THEN "None"
    ELSE IF ~IsTokenArray(resp.body) THEN "unreadable"
    ELSE IF \A i \in 1..Len(resp.body.items) : ~HasCallAbove30(resp.body.items[i])
    THEN "no_tokens"
    ELSE "tokens"

\* the class of a response, for the history variable feed_class
FeedClass(resp) == [status |-> StatusClass(resp), content |-> ContentClass(resp)]

TweetIds == {"t1", "t2"}
MediaIds == {"m1"}
MainImagePath == "images/msgtwt.png"
ReplyImagePath == "images/msgtwtft.png"

\* what a 429 response may carry as x-rate-limit-reset, and the clock readings
\* no header, 'x', '+55' and '150'
MainHeaders == {NoHeader, HeaderOf(<<120>>), HeaderOf(<<43, 53, 53>>),
                HeaderOf(<<49, 53, 48>>)}
ClockReadings == {0, MaxClock}

\* readings of the monotonic clock, seconds and nanoseconds since the start
\* of the machine; they leave room for the sleeps of 60 seconds
MonotonicReadings == {[sec |-> 1, nsec |-> 0], [sec |-> 23825, nsec |-> 900000000]}

\* how create_tweet may end: it answers with the new tweet's id ("ok"), it
\* answers without data, so that response.data['id'] raises ("ok_no_data"),
\* or it raises TooManyRequests, another TweepyException, or something else
CreateOutcomes ==
    {[kind |-> "ok", id |-> i] : i \in TweetIds}
    \cup {[kind |-> "rate_limit", header |-> h] : h \in MainHeaders}
    \cup {[kind |-> "ok_no_data"], [kind |-> "tweepy_error"], [kind |-> "error"]}

UploadOutcomes ==
    {[kind |-> "no_file"], [kind |-> "error"]}
    \cup {[kind |-> "ok", id |-> m] : m \in MediaIds}

\* create_tweet, had "if media_id:" been left out
CreateTweetCallAlwaysMedia(text, parent, media, outcome) ==
    [op |-> "create_tweet", text |-> text, in_reply_to_tweet_id |-> parent,
     media_ids |-> <<media>>, outcome |-> outcome,
     after_sleeps |-> Len(sleeps)]

\* client.create_tweet(text=..., in_reply_to_tweet_id=..., media_ids=[...])
CreateTweetCall(text, parent, media, outcome) ==
    [op |-> "create_tweet", text |-> text, in_reply_to_tweet_id |-> parent,
     media_ids |-> IF Truthy(media) THEN <<media>> ELSE <<>>,
     outcome |-> outcome,
     after_sleeps |-> Len(sleeps)]

MainTweetCall(outcome) == CreateTweetCall(tweet_text, "None", media_id, outcome)

ReplyTweetCallNoParent(outcome) ==
    CreateTweetCall(link_tweet_text, "None", reply_media_id, outcome)

\* the reply, first attempt and retry alike
ReplyTweetCall(outcome) ==
    CreateTweetCall(link_tweet_text, main_tweet_id, reply_media_id, outcome)

MediaUploadCall(path, outcome) ==
    [op |-> "media_upload", path |-> path, outcome |-> outcome,
     after_sleeps |-> Len(sleeps)]

\* main(), had it not slept before the reply
NoCoolDownSleeps == <<>>

\* time.sleep(60) after the main tweet
CoolDownSleeps == <<CoolDown>>

\* the handler of the reply's TooManyRequests, had it slept twice
ReplyRateLimitSleepsTwice(wait) == <<wait, wait>>

\* time.sleep(wait_time) in the handler of the reply's TooManyRequests
ReplyRateLimitSleeps(wait) == <<wait>>

\* what the handler of the primary post's TooManyRequests sleeps: nothing
MainRateLimitSleeps(wait) == <<>>

Finished == Log("info", "execution finished")

\* main() returned: the interpreter reaches the end of the script
Return ==
    /\ pc' = "exited"
    /\ exit_status' = 0
    /\ raised' = "None"

\* an exception left main(): traceback, status 1
Uncaught(exc) ==
    /\ pc' = "exited"
    /\ exit_status' = 1
    /\ raised' = exc

MainInit ==
    /\ pc = "start"
    /\ creds \in [1..4 -> CredValues]
    /\ feed_class = NoFeedClass
    /\ top_3 = NoneResult
    /\ tweet_text = NoText
    /\ media_id = "None"
    /\ main_tweet_id = "None"
    /\ link_tweet_text = NoText
    /\ reply_media_id = "None"
    /\ calls = <<>>
    /\ sleeps = <<>>
    /\ log = <<>>
    /\ raised = "None"
    /\ exit_status = -1
    /\ RankIdle
    /\ WaitIdle
    /\ SendIdle

\* lines 141-145
CheckCredentials ==
    /\ pc = "start"
    /\ IF AllCredentials(creds)
       THEN /\ log' = log \o <<Log("info", "execution started")>>
            /\ pc' = "authenticate"
            /\ UNCHANGED <<exit_status, raised>>
       ELSE /\ log' = log \o <<Log("info", "execution started"),
                               Log("error", "keys missing")>>
            /\ Return
    /\ UNCHANGED <<creds, feed_class, top_3, tweet_text, media_id, main_tweet_id,
                   link_tweet_text, reply_media_id, calls, sleeps,
                   rankVars, waitVars, sendVars>>

\* how the try of lines 147-160 may end: it runs through (stage "done"), or
\* an exception is raised by tweepy.Client(...) ("client"), by get_me
\* ("get_me"), by me.data.username on an answer without data ("me_data"),
\* or by OAuth1UserHandler / API ("v1_client"); the exception is a
\* TweepyException ("tweepy_error") or not ("error")
AuthOutcomes ==
    {[stage |-> "done", class |-> "None"], [stage |-> "me_data", class |-> "error"]}
    \cup {[stage |-> st, class |-> c] :
             st \in {"client", "get_me", "v1_client"},
             c \in {"tweepy_error", "error"}}

\* the get_me call of line 155 and what it answered
GetMeCall(outcome) ==
    [op |-> "get_me",
     outcome |-> IF outcome.stage = "get_me" THEN outcome.class ELSE "ok",
     after_sleeps |-> Len(sleeps)]

\* the handlers, had "except Exception" logged without returning
AuthFailureReturnsOnlyTweepy(outcome) == outcome.class = "tweepy_error"

\* both handlers of the try end in "return" (lines 163 and 166)
AuthFailureReturns(outcome) == outcome.class # "None"

\* what line 156 and the handler chosen by the exception's class log
AuthLog(outcome) ==
    (IF outcome.stage \in {"done", "v1_client"}
     THEN <<Log("info", "authenticated")>> ELSE <<>>)
    \o (CASE outcome.class = "None" -> <<>>
          [] outcome.class = "tweepy_error" ->
               <<Log("error", "tweepy error authenticating")>>
          [] outcome.class = "error" ->
               <<Log("error", "unexpected error during client setup")>>)

\* lines 147-166
Authenticate ==
    /\ pc = "authenticate"
    /\ \E outcome \in AuthOutcomes :
         /\ calls' = IF outcome.stage = "client" THEN calls
                     ELSE Append(calls, GetMeCall(outcome))
         /\ log' = log \o AuthLog(outcome)
         /\ IF AuthFailureReturns(outcome)
            THEN Return
            ELSE /\ pc' = "fetch"
                 /\ UNCHANGED <<exit_status, raised>>
    /\ UNCHANGED <<creds, feed_class, top_3, tweet_text, media_id, main_tweet_id,
                   link_tweet_text, reply_media_id, sleeps, rankVars, waitVars,
                   sendVars>>

\* lines 168-171
FetchTopTokens ==
    /\ pc = "fetch"
    /\ SomeResponseWithin(MainMaxFeed, MainMaxTotalCalls, LAMBDA r :
         /\ top_3' = GetTopTokens(r)
         /\ feed_class' = FeedClass(r)
         /\ log' = log \o GetTopTokensLog(r)
                       \o (IF SkipsPublishing(top_3')
                           THEN <<Log("warning", "no tokens, skipping tweet")>>
                           ELSE <<>>))
    /\ IF SkipsPublishing(top_3')
       THEN Return
       ELSE /\ pc' = "format"
            /\ UNCHANGED <<exit_status, raised>>
    /\ UNCHANGED <<creds, tweet_text, media_id, main_tweet_id, link_tweet_text,
                   reply_media_id, calls, sleeps, rankVars, waitVars, sendVars>>

\* lines 173-180
FormatMainTweet ==
    /\ pc = "format"
    /\ \E current_hour \in 0..MaxHour :
         tweet_text' = FormatTweet(top_3.list, current_hour)
    /\ top_3' = [isNone |-> FALSE, forgotten |-> TRUE]
    /\ log' = log \o <<Log("info", "prepared main tweet"),
                       TextLog(tweet_text')>>
                    \o LengthWarning(tweet_text', "main tweet too long")
    /\ pc' = "upload_main_image"
    /\ UNCHANGED <<creds, feed_class, media_id, main_tweet_id, link_tweet_text,
                   reply_media_id, calls, sleeps, raised, exit_status,
                   rankVars, waitVars, sendVars>>

\* lines 183-195 (image_path) and 219-231 (reply_image_path)
UploadImage(path, nextPc, missingMsg, errorMsg, okMsg, id, otherId) ==
    \E outcome \in UploadOutcomes :
      /\ IF outcome.kind = "no_file"
         THEN /\ log' = Append(log, Log("error", missingMsg))
              /\ id' = "None"
              /\ UNCHANGED calls
         ELSE /\ calls' = Append(calls, MediaUploadCall(path, outcome))
              /\ IF outcome.kind = "ok"
                 THEN /\ log' = Append(log, Log("info", okMsg))
                      /\ id' = outcome.id
                 ELSE /\ log' = Append(log, Log("error", errorMsg))
                      /\ id' = "None"
      /\ pc' = nextPc
      /\ UNCHANGED <<creds, feed_class, top_3, tweet_text, otherId, main_tweet_id,
                     link_tweet_text, sleeps, raised, exit_status,
                     rankVars, waitVars, sendVars>>

\* lines 183-195
UploadMainImage ==
    /\ pc = "upload_main_image"
    /\ UploadImage(MainImagePath, "create_main_tweet", "image file not found",
                   "error uploading image", "image uploaded",
                   media_id, reply_media_id)

\* what main() does with the outcome of the primary create_tweet:
\* lines 202-203 on success, the handlers of the outer try (276-288) otherwise
AfterMainTweet(outcome, current_time) ==
    CASE outcome.kind = "ok" ->
           [pc |-> "cool_down", main_tweet_id |-> outcome.id,
            log |-> <<Log("info", "main tweet sent")>>,
            sleeps |-> <<>>, raised |-> "None", exit_status |-> -1]
      [] outcome.kind = "rate_limit" ->
           LET w == RateLimitWait(outcome.header, current_time)
           IN  IF w.raised # "None"
               THEN \* int() raised inside the handler: nothing catches it
                    [pc |-> "exited", main_tweet_id |-> "None", log |-> <<>>,
                     sleeps |-> <<>>, raised |-> w.raised, exit_status |-> 1]
               ELSE IF StrRaises(w.wait_time)
               THEN \* so did the f-string of line 281
                    [pc |-> "exited", main_tweet_id |-> "None", log |-> <<>>,
                     sleeps |-> <<>>, raised |-> "ValueError", exit_status |-> 1]
               ELSE [pc |-> "exited", main_tweet_id |-> "None",
                     log |-> <<[level |-> "error",
                                what |-> "rate limit exceeded sending main tweet",
                                wait_time |-> w.wait_time],
                               Finished>>,
                     sleeps |-> MainRateLimitSleeps(w.wait_time),
                     raised |-> "None", exit_status |-> 0]
      [] outcome.kind = "tweepy_error" ->
           [pc |-> "exited", main_tweet_id |-> "None",
            log |-> <<Log("error", "twitter api error sending tweet"), Finished>>,
            sleeps |-> <<>>, raised |-> "None", exit_status |-> 0]
      [] outcome.kind \in {"error", "ok_no_data"} ->
           [pc |-> "exited", main_tweet_id |-> "None",
            log |-> <<Log("error", "unexpected error sending tweet"), Finished>>,
            sleeps |-> <<>>, raised |-> "None", exit_status |-> 0]

\* lines 197-203, and the handlers of the outer try, lines 276-288
CreateMainTweet ==
    /\ pc = "create_main_tweet"
    /\ \E outcome \in CreateOutcomes, current_time \in ClockReadings :
         LET after == AfterMainTweet(outcome, current_time)
         IN  /\ calls' = Append(calls, MainTweetCall(outcome))
             /\ main_tweet_id' = after.main_tweet_id
             /\ log' = log \o after.log
             /\ sleeps' = sleeps \o after.sleeps
             /\ pc' = after.pc
             /\ raised' = after.raised
             /\ exit_status' = after.exit_status
    /\ UNCHANGED <<creds, feed_class, top_3, tweet_text, media_id, link_tweet_text,
                   reply_media_id, rankVars, waitVars, sendVars>>

\* lines 205-217
CoolDownAndFormatReply ==
    /\ pc = "cool_down"
    /\ sleeps' = sleeps \o CoolDownSleeps
    /\ \E current_minute \in 0..MaxMinute :
         link_tweet_text' = FormatLinkTweet(current_minute)
    /\ log' = log \o <<Log("info", "waiting before sending reply"),
                       Log("info", "prepared reply tweet"),
                       TextLog(link_tweet_text')>>
                    \o LengthWarning(link_tweet_text', "reply tweet too long")
    /\ pc' = "upload_reply_image"
    /\ UNCHANGED <<creds, feed_class, top_3, tweet_text, media_id, main_tweet_id,
                   reply_media_id, calls, raised, exit_status, rankVars, waitVars, sendVars>>

\* lines 219-231
UploadReplyImage ==
    /\ pc = "upload_reply_image"
    /\ UploadImage(ReplyImagePath, "create_reply_tweet",
                   "reply image file not found", "error uploading reply image",
                   "reply image uploaded", reply_media_id, media_id)

\* the first reply attempt, had every outcome led to the wait and the retry
AfterReplyTweetAlwaysRetry(outcome, current_time, monotonic) ==
    [pc |-> "retry_reply_tweet",
     log |-> <<[level |-> "error", what |-> "rate limit exceeded sending reply",
                wait_time |-> MinWait]>>,
     sleeps |-> <<MinWait>>, exit_status |-> -1]

\* what main() does with the outcome of the first reply create_tweet:
\* lines 246-247 on success, the inner handler (249-256) on TooManyRequests,
\* the handlers of the outer try (283-288) otherwise
AfterReplyTweet(outcome, current_time, monotonic) ==
    CASE outcome.kind = "ok" ->
           [pc |-> "exited",
            log |-> <<Log("info", "reply tweet sent"), Finished>>,
            sleeps |-> <<>>, exit_status |-> 0]
      [] outcome.kind = "rate_limit" ->
           LET w == RateLimitWait(outcome.header, current_time)
           IN  IF w.raised # "None" \/ StrRaises(w.wait_time)
               THEN \* int(), or the f-string of line 255, raised inside the
                    \* inner handler: the outer "except Exception" takes it
                    [pc |-> "exited",
                     log |-> <<Log("error", "unexpected error sending tweet"),
                               Finished>>,
                     sleeps |-> <<>>, exit_status |-> 0]
               ELSE IF SleepRaises(w.wait_time, monotonic) # "None"
               THEN \* the wait is logged, time.sleep raises at line 256
                    [pc |-> "exited",
                     log |-> <<[level |-> "error",
                                what |-> "rate limit exceeded sending reply",
                                wait_time |-> w.wait_time],
                               Log("error", "unexpected error sending tweet"),
                               Finished>>,
                     sleeps |-> <<>>, exit_status |-> 0]
               ELSE [pc |-> "retry_reply_tweet",
                     log |-> <<[level |-> "error",
                                what |-> "rate limit exceeded sending reply",
                                wait_time |-> w.wait_time]>>,
                     sleeps |-> ReplyRateLimitSleeps(w.wait_time),
                     exit_status |-> -1]
      [] outcome.kind = "tweepy_error" ->
           [pc |-> "exited",
            log |-> <<Log("error", "twitter api error sending tweet"), Finished>>,
            sleeps |-> <<>>, exit_status |-> 0]
      [] outcome.kind \in {"error", "ok_no_data"} ->
           [pc |-> "exited",
            log |-> <<Log("error", "unexpected error sending tweet"), Finished>>,
            sleeps |-> <<>>, exit_status |-> 0]

\* lines 233-256, and the handlers of the outer try, lines 283-288
CreateReplyTweet ==
    /\ pc = "create_reply_tweet"
    /\ \E outcome \in CreateOutcomes, current_time \in ClockReadings,
          monotonic \in MonotonicReadings :
         LET after == AfterReplyTweet(outcome, current_time, monotonic)
         IN  /\ calls' = Append(calls, ReplyTweetCall(outcome))
             /\ log' = log \o after.log
             /\ sleeps' = sleeps \o after.sleeps
             /\ pc' = after.pc
             /\ exit_status' = after.exit_status
    /\ UNCHANGED <<creds, feed_class, top_3, tweet_text, media_id, main_tweet_id,
                   link_tweet_text, reply_media_id, raised, rankVars, waitVars, sendVars>>

\* lines 258-274, then line 288
RetryReplyTweet ==
    /\ pc = "retry_reply_tweet"
    /\ \E outcome \in CreateOutcomes :
         /\ calls' = Append(calls, ReplyTweetCall(outcome))
         /\ log' = log \o
              <<IF outcome.kind = "ok"
                THEN Log("info", "reply tweet sent after waiting")
                ELSE Log("error", "failed to send reply tweet even after waiting"),
                Finished>>
    /\ Return
    /\ UNCHANGED <<creds, feed_class, top_3, tweet_text, media_id, main_tweet_id,
                   link_tweet_text, reply_media_id, sleeps, rankVars, waitVars, sendVars>>

Next ==
    \/ CheckCredentials
    \/ Authenticate
    \/ FetchTopTokens
    \/ FormatMainTweet
    \/ UploadMainImage
    \/ CreateMainTweet
    \/ CoolDownAndFormatReply
    \/ UploadReplyImage
    \/ CreateReplyTweet
    \/ RetryReplyTweet

Spec == MainInit /\ [][Next]_vars

\* every external call returns or raises and every sleep ends: main() is
\* sequential, so whatever step is next is eventually taken
LiveSpec == MainInit /\ [][Next]_vars /\ WF_vars(Next)

(***************************************************************************)
(* create_tweets_with_rate_limit(client, tweets_to_send)                   *)
(***************************************************************************)
MaxTweets == 2        \* longest list tweets_to_send
TweetTexts == {"a", "b"}
SendLists == UNION {[1..n -> TweetTexts] : n \in 0..MaxTweets}

\* the events of the function: a create_tweet call for the tweet at a
\* position of the list, a time.sleep, a log record
CreateEvent(index, outcome) ==
    [ev |-> "create_tweet", tweet |-> index, text |-> tweets_to_send[index],
     outcome |-> outcome]
SleepEvent(seconds) == [ev |-> "sleep", seconds |-> seconds]
LogEvent(level, what) == [ev |-> "log", level |-> level, what |-> what]

\* where the loop stands once the tweet at position index is done with
AfterTweet(index) == IF index < Len(tweets_to_send) THEN "loop" ELSE "returned"

SendInit ==
    /\ tweets_to_send \in SendLists
    /\ tweet_index = 0
    /\ send_pc = "start"
    /\ events = <<>>
    /\ send_raised = "None"
    /\ RankIdle
    /\ WaitIdle
    /\ MainIdle

\* line 114, on entry: the loop takes the first tweet, or the list is empty
CallCreateTweets ==
    /\ send_pc = "start"
    /\ send_pc' = AfterTweet(0)
    /\ UNCHANGED <<tweets_to_send, tweet_index, events, send_raised,
                   rankVars, waitVars, mainVars>>

\* what one iteration does with the outcome of its first create_tweet:
\* lines 117-119 on success, 120-128 on TooManyRequests, 135-138 otherwise
AfterSendTweet(index, outcome, current_time, monotonic) ==
    CASE outcome.kind = "ok" ->
           [send_pc |-> AfterTweet(index), send_raised |-> "None",
            events |-> <<LogEvent("info", "tweet sent"), SleepEvent(CoolDown)>>]
      [] outcome.kind = "rate_limit" ->
           LET w == RateLimitWait(outcome.header, current_time)
           IN  IF w.raised # "None"
               THEN \* int() raised inside the handler: it leaves the function
                    [send_pc |-> "raised", send_raised |-> w.raised,
                     events |-> <<>>]
               ELSE IF StrRaises(w.wait_time)
               THEN \* so did the f-string of line 127
                    [send_pc |-> "raised", send_raised |-> "ValueError",
                     events |-> <<>>]
               ELSE IF SleepRaises(w.wait_time, monotonic) # "None"
               THEN \* the wait is logged, time.sleep raises at line 128
                    [send_pc |-> "raised",
                     send_raised |-> SleepRaises(w.wait_time, monotonic),
                     events |-> <<[ev |-> "log", level |-> "error",
                                   what |-> "rate limit exceeded",
                                   wait_time |-> w.wait_time]>>]
               ELSE [send_pc |-> "retry", send_raised |-> "None",
                     events |-> <<[ev |-> "log", level |-> "error",
                                   what |-> "rate limit exceeded",
                                   wait_time |-> w.wait_time],
                                  SleepEvent(w.wait_time)>>]
      [] OTHER ->
           [send_pc |-> AfterTweet(index), send_raised |-> "None",
            events |-> <<LogEvent("error", "error sending tweet"),
                         SleepEvent(CoolDown)>>]

\* lines 114-128 and 135-138: the next tweet of the list, first attempt
SendTweet ==
    /\ send_pc = "loop"
    /\ tweet_index' = tweet_index + 1
    /\ \E outcome \in CreateOutcomes, current_time \in ClockReadings,
          monotonic \in MonotonicReadings :
         LET after == AfterSendTweet(tweet_index', outcome, current_time, monotonic)
         IN  /\ events' = Append(events, CreateEvent(tweet_index', outcome))
                              \o after.events
             /\ send_pc' = after.send_pc
             /\ send_raised' = after.send_raised
    /\ UNCHANGED <<tweets_to_send, rankVars, waitVars, mainVars>>

\* lines 129-134: the retry after the wait, then on to the next tweet
RetryTweet ==
    /\ send_pc = "retry"
    /\ \E outcome \in CreateOutcomes :
         events' = events \o
            <<CreateEvent(tweet_index, outcome),
              IF outcome.kind = "ok"
              THEN LogEvent("info", "tweet sent after waiting")
              ELSE LogEvent("error", "failed to send tweet even after waiting")>>
    /\ send_pc' = AfterTweet(tweet_index)
    /\ UNCHANGED <<tweets_to_send, tweet_index, send_raised,
                   rankVars, waitVars, mainVars>>

SendNext ==
    \/ CallCreateTweets
    \/ SendTweet
    \/ RetryTweet

SpecSend == SendInit /\ [][SendNext]_vars

(***************************************************************************)
(* Vocabulary of the properties                                            *)
(***************************************************************************)
IsPrimaryAttempt(c) == c.op = "create_tweet" /\ c.text.part = "1/2"
IsReplyAttempt(c) == c.op = "create_tweet" /\ c.text.part = "2/2"
PrimaryAttempts == {i \in 1..Len(calls) : IsPrimaryAttempt(calls[i])}
ReplyAttempts == {i \in 1..Len(calls) : IsReplyAttempt(calls[i])}
PostingCalls == {i \in 1..Len(calls) : calls[i].op \in {"create_tweet", "media_upload"}}
Logged(what) == \E i \in 1..Len(log) : log[i].what = what

\* the number of call records of a token whose win_rate is above 30
ScoreOf(t) ==
    IF "channel_calls" \notin DOMAIN t THEN 0
    ELSE Cardinality({j \in 1..Len(t.channel_calls) :
                        /\ "win_rate" \in DOMAIN t.channel_calls[j]
                        /\ t.channel_calls[j].win_rate > 30})

\* out[i] stands before q in the descending order that keeps feed order on ties
RanksBefore(scoreA, posA, scoreB, posB) ==
    \/ scoreA > scoreB
    \/ scoreA = scoreB /\ posA < posB

(***************************************************************************)
(* C1: a reply post is attempted only after the primary post was created   *)
(* successfully, every reply attempt carries the identifier the primary    *)
(* post returned as its parent, and a run whose primary post failed        *)
(* attempts no reply.                                                      *)
(***************************************************************************)
ReplyOnlyAfterPrimary ==
    /\ \A i \in ReplyAttempts :
          \E j \in PrimaryAttempts :
             /\ j < i
             /\ calls[j].outcome.kind = "ok"
             /\ calls[i].in_reply_to_tweet_id = calls[j].outcome.id
    /\ (\E j \in PrimaryAttempts : calls[j].outcome.kind # "ok")
          => ReplyAttempts = {}

\* a finished run with a first reply attempt and a retry, both under "t2"
ReplyOnlyAfterPrimaryWitness ==
    /\ pc = "exited"
    /\ Cardinality(ReplyAttempts) = 2
    /\ \A i \in ReplyAttempts : calls[i].in_reply_to_tweet_id = "t2"

(***************************************************************************)
(* C2: when the primary post gets a rate-limit response the run sleeps for  *)
(* the computed wait and retries the primary post exactly once; no further *)
(* attempt follows the retry.                                              *)
(***************************************************************************)
PrimaryRateLimitRetriedOnce ==
    (pc = "exited" /\ \E j \in PrimaryAttempts : calls[j].outcome.kind = "rate_limit")
        => /\ sleeps # <<>>
           /\ sleeps[1] >= MinWait
           /\ Cardinality(PrimaryAttempts) = 2

(***************************************************************************)
(* C3: when the reply gets a rate-limit response the run sleeps for the    *)
(* wait and retries the reply exactly once with the same text, parent and  *)
(* image, makes no third attempt and ends normally.                        *)
(***************************************************************************)
ReplyRateLimitRetriedOnce ==
    (pc = "exited" /\ \E i \in ReplyAttempts :
                         /\ \A k \in ReplyAttempts : i <= k
                         /\ calls[i].outcome.kind = "rate_limit")
        => /\ Cardinality(ReplyAttempts) = 2
           /\ Len(sleeps) = 2
           /\ sleeps[2] >= 60
           /\ \A i, k \in ReplyAttempts :
                 /\ calls[i].text = calls[k].text
                 /\ calls[i].in_reply_to_tweet_id = calls[k].in_reply_to_tweet_id
                 /\ calls[i].media_ids = calls[k].media_ids
           /\ raised = "None"
           /\ exit_status = 0

(***************************************************************************)
(* C4: for every integer reset time R, however the header writes it, and    *)
(* every current time T the handlers compute the wait max(R - T + 10, 60): *)
(* it is never below 60, a reset 45 seconds ahead gives 60, and a missing  *)
(* header (R = 0) gives 60.                                                *)
(***************************************************************************)
\* the header is missing, or writes an integer: white space, an optional
\* sign, decimal digits with single underscores between them, white space
IsIntegerHeader(hdr) ==
    ~hdr.present
    \/ LET stripped == StripRight(StripLeft(hdr.value))
        IN  DigitsWithUnderscores(IF HasSign(stripped) THEN Tail(stripped)
                                  ELSE stripped)

MissingCredentialExitsOne ==
    (pc = "exited" /\ \E i \in 1..4 : creds[i] \in {"None", ""})
        => /\ exit_status = 1
           /\ calls = <<>>

TopThreeStableDescending ==
    (result.called /\ ~result.value.isNone)
        => LET out == result.value.list
               feed == response.body.items
               qualifying == {p \in 1..Len(feed) : ScoreOf(feed[p]) > 0}
               chosen == {out[i].symbol : i \in 1..Len(out)}
           IN  /\ Len(out) <= 3
               /\ Len(out) = IF Cardinality(qualifying) < 3
                             THEN Cardinality(qualifying) ELSE 3
               /\ chosen \subseteq qualifying
               /\ \A i \in 1..Len(out) :
                     out[i].filtered_calls = ScoreOf(feed[out[i].symbol])
               /\ \A i, j \in 1..Len(out) :
                     i < j => RanksBefore(out[i].filtered_calls, out[i].symbol,
                                          out[j].filtered_calls, out[j].symbol)
               /\ \A q \in qualifying \ chosen : \A i \in 1..Len(out) :
                     RanksBefore(out[i].filtered_calls, out[i].symbol,
                                 ScoreOf(feed[q]), q)

\* four tokens qualify and the last of the feed has the highest score: it
\* comes first, the first two follow in feed order, the third is cut
TopThreeStableDescendingWitness ==
    /\ result.called
    /\ ~result.value.isNone
    /\ Len(response.body.items) = 4
    /\ \A p \in 1..3 : ScoreOf(response.body.items[p]) = 1
    /\ ScoreOf(response.body.items[4]) = 2
    /\ Len(result.value.list) = 3
    /\ result.value.list[1].symbol = 4
    /\ result.value.list[2].symbol = 1
    /\ result.value.list[3].symbol = 2

(***************************************************************************)
(* C8: a token's score is the number of its call records whose win_rate is *)
(* strictly above 30 (exactly 30, or no win_rate, does not count), and a   *)
(* token of score zero, or without a call list, is never returned: every   *)
(* returned token has a score of at least 1.                               *)
(***************************************************************************)
ScoreCountsCallsAboveThreshold ==
    (result.called /\ ~result.value.isNone)
        => LET out == result.value.list
               feed == response.body.items
           IN  /\ \A i \in 1..Len(out) :
                     /\ out[i].filtered_calls >= 1
                     /\ out[i].filtered_calls = ScoreOf(out[i])
               /\ \A p \in 1..Len(feed) :
                     ScoreOf(feed[p]) = 0
                        => \A i \in 1..Len(out) : out[i].symbol # p

\* a returned token with a record at exactly 30, beside tokens that are dropped
ScoreCountsCallsAboveThresholdWitness ==
    /\ result.called
    /\ ~result.value.isNone
    /\ Len(result.value.list) = 1
    /\ result.value.list[1].filtered_calls = 1
    /\ Len(result.value.list[1].channel_calls) = 2
    /\ \E p \in 1..Len(response.body.items) :
          "channel_calls" \notin DOMAIN response.body.items[p]
    /\ \E p \in 1..Len(response.body.items) :
          LET t == response.body.items[p]
          IN  /\ "channel_calls" \in DOMAIN t
              /\ Len(t.channel_calls) = 1
              /\ "win_rate" \in DOMAIN t.channel_calls[1]
              /\ t.channel_calls[1].win_rate = 30

(***************************************************************************)
(* C9: whatever the external calls of the posting return, the failure is   *)
(* logged and main() returns normally: no exception leaves main().         *)
(***************************************************************************)
NoExceptionLeavesMain ==
    pc = "exited" => (raised = "None" /\ exit_status = 0)

(***************************************************************************)
(* C10: a run that ends because authentication failed or because the       *)
(* primary post could not be created exits with status 1; a run that       *)
(* completes normally exits with status 0.                                 *)
(***************************************************************************)
ExitStatusTellsFailure ==
    pc = "exited"
        => /\ (\/ Logged("tweepy error authenticating")
               \/ Logged("unexpected error during client setup")
               \/ \E j \in PrimaryAttempts : calls[j].outcome.kind # "ok")
              => exit_status = 1
           /\ (\E i \in ReplyAttempts : calls[i].outcome.kind = "ok")
              => exit_status = 0

(***************************************************************************)
(* C11: authentication is verified once per run before any posting: every  *)
(* media upload and every create_tweet call is preceded by a successful    *)
(* get_me call, get_me is called at most once, and a run in which the      *)
(* client construction or get_me failed ends with no media upload and no   *)
(* create_tweet call.                                                      *)
(***************************************************************************)
AuthFailed ==
    \/ Logged("tweepy error authenticating")
    \/ Logged("unexpected error during client setup")

GetMeCalls == {i \in 1..Len(calls) : calls[i].op = "get_me"}

AuthenticatedBeforePosting ==
    /\ \A i \in PostingCalls :
          \E j \in GetMeCalls : j < i /\ calls[j].outcome = "ok"
    /\ Cardinality(GetMeCalls) <= 1
    /\ AuthFailed => (pc = "exited" /\ PostingCalls = {})

\* a run that uploaded an image and created a post, after get_me succeeded
AuthenticatedBeforePostingWitness ==
    /\ calls # <<>>
    /\ calls[1].op = "get_me"
    /\ calls[1].outcome = "ok"
    /\ \E i, k \in PostingCalls :
          calls[i].op = "media_upload" /\ calls[k].op = "create_tweet"

(***************************************************************************)
(* C12: image handling is non-fatal for both posts: when the image file is *)
(* missing or its upload fails, the post is still attempted, without an    *)
(* attachment; and a post carries an attachment only when the upload of    *)
(* its own image succeeded earlier in the run, with the id that upload     *)
(* returned.                                                               *)
(***************************************************************************)
ImagePathOf(c) == IF IsPrimaryAttempt(c) THEN MainImagePath ELSE ReplyImagePath

PastPrimaryPost ==
    pc \in {"cool_down", "upload_reply_image", "create_reply_tweet",
            "retry_reply_tweet", "exited"}

PastReplyPost == pc \in {"retry_reply_tweet", "exited"}

ImageIsNonFatal ==
    /\ \A i \in 1..Len(calls) :
          (calls[i].op = "create_tweet" /\ calls[i].media_ids # <<>>)
             => \E j \in 1..(i - 1) :
                   /\ calls[j].op = "media_upload"
                   /\ calls[j].path = ImagePathOf(calls[i])
                   /\ calls[j].outcome.kind = "ok"
                   /\ calls[i].media_ids = <<calls[j].outcome.id>>
    /\ (PastPrimaryPost /\ (\/ Logged("image file not found")
                             \/ Logged("error uploading image")))
          => /\ PrimaryAttempts # {}
             /\ \A i \in PrimaryAttempts : calls[i].media_ids = <<>>
    /\ (PastReplyPost /\ (\/ Logged("reply image file not found")
                           \/ Logged("error uploading reply image")))
          => /\ ReplyAttempts # {}
             /\ \A i \in ReplyAttempts : calls[i].media_ids = <<>>

\* the upload of the main image failed and the primary post went out bare;
\* the reply image was uploaded and the reply carries it
ImageIsNonFatalWitness ==
    /\ pc = "exited"
    /\ Logged("error uploading image")
    /\ \E i \in PrimaryAttempts : calls[i].media_ids = <<>>
    /\ \E i \in ReplyAttempts : calls[i].media_ids # <<>>

(***************************************************************************)
(* C13: a primary or reply body longer than 280 characters produces a      *)
(* warning (and a body within the limit none) but does not block           *)
(* publishing: the create_tweet call for that body is made with that body, *)
(* and when the platform rejects it the rejection is logged as an ordinary *)
(* publish failure, no reply is attempted and main() returns.              *)
(***************************************************************************)
TooLong(text) == text # NoText /\ text.len > 280

TooLongWarnsButPublishes ==
    /\ tweet_text # NoText
          => (Logged("main tweet too long") <=> tweet_text.len > 280)
    /\ link_tweet_text # NoText
          => (Logged("reply tweet too long") <=> link_tweet_text.len > 280)
    /\ (TooLong(tweet_text) /\ PastPrimaryPost)
          => /\ Cardinality(PrimaryAttempts) = 1
             /\ \A i \in PrimaryAttempts :
                   /\ calls[i].text = tweet_text
                   /\ calls[i].outcome.kind \in {"tweepy_error", "error"}
                        => /\ pc = "exited"
                           /\ raised = "None"
                           /\ ReplyAttempts = {}
                           /\ \/ Logged("twitter api error sending tweet")
                              \/ Logged("unexpected error sending tweet")
    /\ (TooLong(link_tweet_text) /\ PastReplyPost)
          => /\ ReplyAttempts # {}
             /\ \A i \in ReplyAttempts : calls[i].text = link_tweet_text

\* a primary body of more than 280 characters that the platform rejected
TooLongWarnsButPublishesWitness ==
    /\ pc = "exited"
    /\ TooLong(tweet_text)
    /\ Logged("main tweet too long")
    /\ \E i \in PrimaryAttempts : calls[i].outcome.kind = "tweepy_error"

(***************************************************************************)
(* C14: in a run that attempts a reply, a sleep of 60 seconds comes after  *)
(* the successful primary post and before the first reply attempt, before  *)
(* the upload of the reply's image and before the reply text is chosen;    *)
(* and between any two create_tweet calls of a run lies a sleep of at      *)
(* least 60 seconds.                                                       *)
(***************************************************************************)
CreateTweetCalls == {i \in 1..Len(calls) : calls[i].op = "create_tweet"}

SleepBetween(i, k) ==
    \E n \in 1..Len(sleeps) :
       /\ calls[i].after_sleeps < n
       /\ n <= calls[k].after_sleeps
       /\ sleeps[n] >= 60

CoolDownBeforeReply ==
    /\ (ReplyAttempts # {} \/ link_tweet_text # NoText)
          => /\ sleeps # <<>>
             /\ sleeps[1] = 60
             /\ \E j \in PrimaryAttempts :
                   calls[j].outcome.kind = "ok" /\ calls[j].after_sleeps = 0
    /\ \A i \in 1..Len(calls) :
          (\/ IsReplyAttempt(calls[i])
           \/ calls[i].op = "media_upload" /\ calls[i].path = ReplyImagePath)
             => calls[i].after_sleeps >= 1
    /\ \A i, k \in CreateTweetCalls : i < k => SleepBetween(i, k)

\* the reply went out at the first attempt, with its image, after one sleep
CoolDownBeforeReplyWitness ==
    /\ pc = "exited"
    /\ sleeps = <<60>>
    /\ Cardinality(ReplyAttempts) = 1
    /\ \E i \in 1..Len(calls) :
          calls[i].op = "media_upload" /\ calls[i].path = ReplyImagePath

(***************************************************************************)
(* C15: create_tweets_with_rate_limit() waits at least 60 seconds between  *)
(* tweets: whatever the outcome of each attempt, a sleep of at least 60    *)
(* seconds lies between the last create_tweet call for one tweet and the   *)
(* first create_tweet call for the next tweet of the list.                 *)
(***************************************************************************)
SendAttempts == {i \in 1..Len(events) : events[i].ev = "create_tweet"}

SendWaitsBetweenTweets ==
    \A i, k \in SendAttempts :
       (i < k /\ events[i].tweet < events[k].tweet)
          => \E n \in (i + 1)..(k - 1) :
                events[n].ev = "sleep" /\ events[n].seconds >= 60

(***************************************************************************)
(* C16: whatever the external calls return, a run attempts the primary     *)
(* post at most once and the reply at most twice, makes at most three      *)
(* create_tweet calls, and creates at most one primary post and at most    *)
(* one reply successfully.                                                 *)
(***************************************************************************)
Created(attempts) ==
    {i \in attempts : calls[i].outcome.kind \in {"ok", "ok_no_data"}}

NoDuplicatePost ==
    /\ Cardinality(PrimaryAttempts) <= 1
    /\ Cardinality(ReplyAttempts) <= 2
    /\ Cardinality(CreateTweetCalls) <= 3
    /\ Cardinality(Created(PrimaryAttempts)) <= 1
    /\ Cardinality(Created(ReplyAttempts)) <= 1

\* three create_tweet calls: the primary post, a rate-limited reply and
\* the retry that created the reply
NoDuplicatePostWitness ==
    /\ pc = "exited"
    /\ Cardinality(CreateTweetCalls) = 3
    /\ Cardinality(Created(PrimaryAttempts)) = 1
    /\ Cardinality(Created(ReplyAttempts)) = 1

(***************************************************************************)
(* C17: when every external call returns or raises and every sleep ends,   *)
(* every run of main() eventually terminates, and it sleeps at most twice: *)
(* the cool-down and at most one rate-limit wait.                          *)
(***************************************************************************)
TerminatesWithinTwoSleeps ==
    /\ <>(pc = "exited")
    /\ [](/\ Len(sleeps) <= 2
          /\ Len(sleeps) >= 1 => sleeps[1] = CoolDown)

\* a finished run that slept twice: the cool-down and a rate-limit wait
TerminatesWithinTwoSleepsWitness ==
    /\ pc = "exited"
    /\ Len(sleeps) = 2
    /\ sleeps[1] = CoolDown
    /\ \E i \in ReplyAttempts : calls[i].outcome.kind = "rate_limit"

====
